---- MODULE Spec2Model ----
(***************************************************************************)
(* Chess canister: per-player game sessions kept in a stable map, a shared *)
(* chess engine instance, and a one-shot timer that checks for checkmate.  *)
(* Two variants of the canister are modelled side by side:                 *)
(*   "index"    - src/src/index.ts                                         *)
(*   "part_000" - src/unnamed/part_000                                     *)
(* The variant is fixed in the initial state.                              *)
(***************************************************************************)
EXTENDS Integers, FiniteSets, Sequences, TLC

VARIABLES
    variant,       \* which source file is deployed
    engineBuild,   \* how the chess.js build reports a refused move
    games,         \* the StableBTreeMap: player key -> stored ChessGame
    chess,         \* position loaded in the shared `chess` instance
    timers,        \* pending ic.setTimer registrations
    idCounter,     \* ids handed out by generateId()
    timerCounter,  \* timer ids handed out by ic.setTimer
    examined,      \* ids of the stored sessions a setCheckMate firing has read
    lastOp         \* the call that produced this state, with its result

vars == <<variant, engineBuild, games, chess, timers, idCounter, timerCounter,
          examined, lastOp>>

\* ---------------------------------------------------------------- bounds
\* Number of successful createGame calls explored.
MaxGames == 2

\* Delay handed to ic.setTimer.  A registered timer may fire at any step
\* after its registration; calls made within the delay come before it.
DELAY == 5

Keys == {"alice", "bob"}

Variants == {"index", "part_000"}

\* chess.js 1.x throws on a refused move, 0.x returns null.
EngineBuilds == {"throws", "returnsNull"}

\* ------------------------------------------------- rules engine (chess.js)
\* A fragment of chess around Fool's Mate.  A position records where the
\* white f- and g-pawns, the black e-pawn and the black queen stand
\* (0 = home square, 1 = moved) and the side to move.  All other pieces
\* stay on their home squares.
StartPos == [f |-> 0, g |-> 0, p |-> 0, q |-> 0, stm |-> "w"]

\* Opt<string> promotion argument.
OptNone == <<>>

\* <<from, to, promotion>> offered to a move call; "z9" is not a square.
MoveInputs == { <<"f2", "f3", OptNone>>, <<"g2", "g4", <<"q">>>>,
                <<"e7", "e5", OptNone>>, <<"d8", "h4", <<"q">>>>,
                <<"z9", "e4", OptNone>> }

\* White is in check: the queen on h4 sees e1 through g3 and the vacated f2.
InCheck(pos) == pos.stm = "w" /\ pos.q = 1 /\ pos.f = 1

\* chess.isCheckmate(): in check, and g2-g3 cannot interpose because the
\* g-pawn has left g2; every flight square of the king is occupied.
isCheckmate(pos) == InCheck(pos) /\ pos.g = 1

\* Legal moves of the fragment.  The f-pawn is pinned once the queen is on
\* h4; in check none of the pawn moves below answers the check.
LegalMove(pos, from, to) ==
    \/ from = "f2" /\ to = "f3" /\ pos.stm = "w" /\ pos.f = 0 /\ pos.q = 0
    \/ from = "g2" /\ to = "g4" /\ pos.stm = "w" /\ pos.g = 0 /\ ~InCheck(pos)
    \/ from = "e7" /\ to = "e5" /\ pos.stm = "b" /\ pos.p = 0
    \/ from = "d8" /\ to = "h4" /\ pos.stm = "b" /\ pos.q = 0 /\ pos.p = 1

Other(stm) == IF stm = "w" THEN "b" ELSE "w"

MakeMove(pos, from) ==
    LET moved == CASE from = "f2" -> [pos EXCEPT !.f = 1]
                   [] from = "g2" -> [pos EXCEPT !.g = 1]
                   [] from = "e7" -> [pos EXCEPT !.p = 1]
                   [] OTHER       -> [pos EXCEPT !.q = 1]
    IN  [moved EXCEPT !.stm = Other(pos.stm)]

\* chess.move({from, to, promotion}) on the loaded position `pos`.  The
\* promotion piece is ignored for a move that is not a promotion.  A refused
\* move leaves the loaded position as it was.
chess_move(pos, from, to, promotion) ==
    IF LegalMove(pos, from, to)
    THEN [status |-> "move", pos |-> MakeMove(pos, from)]
    ELSE [status |-> IF engineBuild = "throws" THEN "throw" ELSE "null",
          pos |-> pos]

\* chess.ascii(): the piece placement only; the side to move is not drawn.
ascii(pos) == <<pos.f, pos.g, pos.p, pos.q>>

\* chess.fen(): the full position, side to move included.
fen(pos) == pos

\* --------------------------------------------------------------- storage
\* Candid encoding of the Turn variant: the tag whose property is not
\* undefined.
TurnTag(turn) ==
    IF turn.White = "null" THEN "White"
    ELSE IF turn.Black = "null" THEN "Black" ELSE "Invalid"

\* Decoding gives an object with the one tag set to null.
FromTag(tag) ==
    [White |-> IF tag = "White" THEN "null" ELSE "undefined",
     Black |-> IF tag = "Black" THEN "null" ELSE "undefined"]

\* What a ChessGame object reads back as after being written to the map.
Stored(game) == [game EXCEPT !.turn = FromTag(TurnTag(game.turn))]

\* games.insert(key, game)
Insert(map, key, game) ==
    [k \in DOMAIN map \cup {key} |-> IF k = key THEN Stored(game) ELSE map[k]]

\* games.containsKey(key)
containsKey(map, key) == key \in DOMAIN map

NoBoard == <<>>

NoOp == [op |-> "none", key |-> "", kind |-> "Void", msg |-> "",
         board |-> NoBoard, ret |-> <<>>]

Call(op, key, kind, msg, board, ret) ==
    [op |-> op, key |-> key, kind |-> kind, msg |-> msg, board |-> board,
     ret |-> ret]

\* Result.Ok / Result.Err of a move, with the state the call leaves behind.
Outcome(kind, msg, board, newGames, newChess) ==
    [kind |-> kind, msg |-> msg, board |-> board, games |-> newGames,
     chess |-> newChess]

\* ------------------------------------------------------ src/src/index.ts
\* Variant of init whose id does not come from a fresh generateId() value.
init_reusedId(id) ==
    [id |-> 0, board |-> ascii(chess), fen |-> fen(chess),
     history |-> OptNone,
     turn |-> [White |-> "null", Black |-> "undefined"],
     is_checkmate |-> FALSE]

\* Game.init(): reads the shared engine instance as it currently is.
init(id) ==
    [id |-> id, board |-> ascii(chess), fen |-> fen(chess),
     history |-> OptNone,
     turn |-> [White |-> "null", Black |-> "undefined"],
     is_checkmate |-> FALSE]

\* match(promotions, {Some: p => p, None: () => undefined})
Unwrap(promotions) == IF promotions = OptNone THEN "undefined" ELSE promotions[1]

\* Variant of moveWhite that leaves the turn with White after a move.
moveWhite_noFlip(game, username, from, to, promotions) ==
    IF game.turn.Black = "null"
    THEN Outcome("Err", "Not your turn", NoBoard, games, chess)
    ELSE LET m == chess_move(game.fen, from, to, Unwrap(promotions))
             g == [game EXCEPT !.board = ascii(m.pos), !.fen = fen(m.pos),
                               !.turn = [White |-> "null", Black |-> "undefined"]]
         IN  IF m.status = "throw"
             THEN Outcome("Err", "Error: Invalid move", NoBoard, games, m.pos)
             ELSE IF m.status = "move"
             THEN IF game.is_checkmate
                  THEN Outcome("OkCheckmate", "", g.board, games, m.pos)
                  ELSE Outcome("Ok", "", g.board, Insert(games, username, g), m.pos)
             ELSE Outcome("Err", "Invalid move", NoBoard, games, m.pos)

\* Variant of moveWhite that writes the session back before looking at
\* the engine's answer.
moveWhite_persistInvalid(game, username, from, to, promotions) ==
    IF game.turn.Black = "null"
    THEN Outcome("Err", "Not your turn", NoBoard, games, chess)
    ELSE LET m == chess_move(game.fen, from, to, Unwrap(promotions))
             g == [game EXCEPT !.board = ascii(m.pos), !.fen = fen(m.pos),
                               !.turn = [Black |-> "null", White |-> "undefined"]]
         IN  IF m.status = "throw"
             THEN Outcome("Err", "Error: Invalid move", NoBoard, games, m.pos)
             ELSE IF m.status = "move"
             THEN IF game.is_checkmate
                  THEN Outcome("OkCheckmate", "", g.board, games, m.pos)
                  ELSE Outcome("Ok", "", g.board, Insert(games, username, g), m.pos)
             ELSE Outcome("Err", "Invalid move", NoBoard,
                          Insert(games, username, g), m.pos)

\* Variant of moveWhite that loads the position before the turn guard.
moveWhite_loadFirst(game, username, from, to, promotions) ==
    IF game.turn.Black = "null"
    THEN Outcome("Err", "Not your turn", NoBoard, games, game.fen)
    ELSE LET m == chess_move(game.fen, from, to, Unwrap(promotions))
             g == [game EXCEPT !.board = ascii(m.pos), !.fen = fen(m.pos),
                               !.turn = [Black |-> "null", White |-> "undefined"]]
         IN  IF m.status = "throw"
             THEN Outcome("Err", "Error: Invalid move", NoBoard, games, m.pos)
             ELSE IF m.status = "move"
             THEN IF game.is_checkmate
                  THEN Outcome("OkCheckmate", "", g.board, games, m.pos)
                  ELSE Outcome("Ok", "", g.board, Insert(games, username, g), m.pos)
             ELSE Outcome("Err", "Invalid move", NoBoard, games, m.pos)

\* Game.moveWhite
moveWhite(game, username, from, to, promotions) ==
    IF game.turn.Black = "null"
    THEN Outcome("Err", "Not your turn", NoBoard, games, chess)
    ELSE LET m == chess_move(game.fen, from, to, Unwrap(promotions))
             g == [game EXCEPT !.board = ascii(m.pos), !.fen = fen(m.pos),
                               !.turn = [Black |-> "null", White |-> "undefined"]]
         IN  IF m.status = "throw"
             THEN Outcome("Err", "Error: Invalid move", NoBoard, games, m.pos)
             ELSE IF m.status = "move"
             THEN IF game.is_checkmate
                  THEN Outcome("OkCheckmate", "", g.board, games, m.pos)
                  ELSE Outcome("Ok", "", g.board, Insert(games, username, g), m.pos)
             ELSE Outcome("Err", "Invalid move", NoBoard, games, m.pos)

\* Variant of moveBlack that writes the session back before looking at
\* the engine's answer.
moveBlack_persistInvalid(game, username, from, to, promotions) ==
    IF game.turn.White = "null"
    THEN Outcome("Err", "Not your turn", NoBoard, games, chess)
    ELSE LET m == chess_move(game.fen, from, to, Unwrap(promotions))
             g == [game EXCEPT !.board = ascii(m.pos), !.fen = fen(m.pos),
                               !.turn = [White |-> "null", Black |-> "undefined"]]
         IN  IF m.status = "throw"
             THEN Outcome("Err", "Error: Invalid move", NoBoard, games, m.pos)
             ELSE IF m.status # "move"
             THEN Outcome("Err", "Invalid move", NoBoard,
                          Insert(games, username, g), m.pos)
             ELSE IF game.is_checkmate
             THEN Outcome("OkCheckmate", "", g.board, games, m.pos)
             ELSE Outcome("Ok", "", g.board, Insert(games, username, g), m.pos)

\* Variant of moveBlack that sets neither tag of the turn.
moveBlack_noTag(game, username, from, to, promotions) ==
    IF game.turn.White = "null"
    THEN Outcome("Err", "Not your turn", NoBoard, games, chess)
    ELSE LET m == chess_move(game.fen, from, to, Unwrap(promotions))
             g == [game EXCEPT !.board = ascii(m.pos), !.fen = fen(m.pos),
                               !.turn = [White |-> "undefined", Black |-> "undefined"]]
         IN  IF m.status = "throw"
             THEN Outcome("Err", "Error: Invalid move", NoBoard, games, m.pos)
             ELSE IF m.status # "move"
             THEN Outcome("Err", "Invalid move", NoBoard, games, m.pos)
             ELSE IF game.is_checkmate
             THEN Outcome("OkCheckmate", "", g.board, games, m.pos)
             ELSE Outcome("Ok", "", g.board, Insert(games, username, g), m.pos)

\* Game.moveBlack
moveBlack(game, username, from, to, promotions) ==
    IF game.turn.White = "null"
    THEN Outcome("Err", "Not your turn", NoBoard, games, chess)
    ELSE LET m == chess_move(game.fen, from, to, Unwrap(promotions))
             g == [game EXCEPT !.board = ascii(m.pos), !.fen = fen(m.pos),
                               !.turn = [White |-> "null", Black |-> "undefined"]]
         IN  IF m.status = "throw"
             THEN Outcome("Err", "Error: Invalid move", NoBoard, games, m.pos)
             ELSE IF m.status # "move"
             THEN Outcome("Err", "Invalid move", NoBoard, games, m.pos)
             ELSE IF game.is_checkmate
             THEN Outcome("OkCheckmate", "", g.board, games, m.pos)
             ELSE Outcome("Ok", "", g.board, Insert(games, username, g), m.pos)

\* The id of the session an insert under `key` drops from the map.
Replaced(key) == IF containsKey(games, key) THEN {games[key].id} ELSE {}

\* createGame: no duplicate check, the new session replaces any old one.
createGame(username) ==
    /\ variant = "index"
    /\ idCounter < MaxGames
    /\ LET game == init(idCounter + 1)
       IN  /\ timers' = timers \cup {[id |-> timerCounter + 1, key |-> username]}
           /\ timerCounter' = timerCounter + 1
           /\ idCounter' = idCounter + 1
           /\ games' = Insert(games, username, game)
           /\ lastOp' = Call("createGame", username, "Ok", "", game.board, <<game>>)
    /\ examined' = examined \ Replaced(username)
    /\ UNCHANGED <<variant, engineBuild, chess>>

\* Variant of setCheckMate whose callback works on the key of the latest
\* createGame call instead of the key it was registered for.
setCheckMate_latestKey(t) ==
    /\ variant = "index"
    /\ t \in timers
    /\ timers' = timers \ {t}
    /\ LET key == CHOOSE k \in DOMAIN games : games[k].id = idCounter
           game == games[key]
       IN  /\ chess' = game.fen
           /\ examined' = examined \cup {game.id}
           /\ games' = IF isCheckmate(game.fen)
                       THEN Insert(games, key, [game EXCEPT !.is_checkmate = TRUE])
                       ELSE games
           /\ lastOp' = Call("setCheckMate", t.key, "Void",
                             IF game.id \in examined THEN "again" ELSE "first",
                             NoBoard, <<>>)
    /\ UNCHANGED <<variant, engineBuild, idCounter, timerCounter>>

\* Variant of setCheckMate with the engine's answer negated.
setCheckMate_inverted(t) ==
    /\ variant = "index"
    /\ t \in timers
    /\ timers' = timers \ {t}
    /\ IF ~containsKey(games, t.key)
       THEN /\ UNCHANGED <<games, chess, examined>>
            /\ lastOp' = Call("setCheckMate", t.key, "Void", "absent", NoBoard, <<>>)
       ELSE LET game == games[t.key]
            IN  /\ chess' = game.fen
                /\ examined' = examined \cup {game.id}
                /\ games' = IF ~isCheckmate(game.fen)
                            THEN Insert(games, t.key, [game EXCEPT !.is_checkmate = TRUE])
                            ELSE games
                /\ lastOp' = Call("setCheckMate", t.key, "Void",
                                  IF game.id \in examined THEN "again" ELSE "first",
                                  NoBoard, <<>>)
    /\ UNCHANGED <<variant, engineBuild, idCounter, timerCounter>>

\* setCheckMate, run by the timer `t` when it fires.
setCheckMate(t) ==
    /\ variant = "index"
    /\ t \in timers
    /\ timers' = timers \ {t}
    /\ IF ~containsKey(games, t.key)
       THEN /\ UNCHANGED <<games, chess, examined>>
            /\ lastOp' = Call("setCheckMate", t.key, "Void", "absent", NoBoard, <<>>)
       ELSE LET game == games[t.key]
            IN  /\ chess' = game.fen
                /\ examined' = examined \cup {game.id}
                /\ games' = IF isCheckmate(game.fen)
                            THEN Insert(games, t.key, [game EXCEPT !.is_checkmate = TRUE])
                            ELSE games
                /\ lastOp' = Call("setCheckMate", t.key, "Void",
                                  IF game.id \in examined THEN "again" ELSE "first",
                                  NoBoard, <<>>)
    /\ UNCHANGED <<variant, engineBuild, idCounter, timerCounter>>

\* Variant of get_board that loads the position into the engine to draw it.
get_board_loads(username) ==
    /\ variant = "index"
    /\ lastOp' = IF containsKey(games, username)
                 THEN Call("get_board", username, "Ok", "", games[username].board, <<>>)
                 ELSE Call("get_board", username, "Err", "Game not found", NoBoard, <<>>)
    /\ chess' = IF containsKey(games, username) THEN games[username].fen ELSE chess
    /\ UNCHANGED <<variant, engineBuild, games, timers, idCounter,
                   timerCounter, examined>>

\* get_board
get_board(username) ==
    /\ variant = "index"
    /\ lastOp' = IF containsKey(games, username)
                 THEN Call("get_board", username, "Ok", "", games[username].board, <<>>)
                 ELSE Call("get_board", username, "Err", "Game not found", NoBoard, <<>>)
    /\ UNCHANGED <<variant, engineBuild, games, chess, timers, idCounter,
                   timerCounter, examined>>

\* The state change and recorded result of a move call.
Finish(op, username, r) ==
    /\ games' = r.games
    /\ chess' = r.chess
    /\ lastOp' = Call(op, username, r.kind, r.msg, r.board, <<>>)
    /\ UNCHANGED <<variant, engineBuild, timers, idCounter, timerCounter, examined>>

NotFound == Outcome("Err", "Game not found", NoBoard, games, chess)

\* white_move
white_move(username, from, to, promotions) ==
    /\ variant = "index"
    /\ Finish("white_move", username,
              IF containsKey(games, username)
              THEN moveWhite(games[username], username, from, to, promotions)
              ELSE NotFound)

\* black_move
black_move(username, from, to, promotions) ==
    /\ variant = "index"
    /\ Finish("black_move", username,
              IF containsKey(games, username)
              THEN moveBlack(games[username], username, from, to, promotions)
              ELSE NotFound)

\* Variant of clearTimer whose cancellation does not reach the registration.
clearTimer_keeps(timerId) ==
    /\ variant = "index"
    /\ timers' = timers
    /\ lastOp' = Call("clearTimer", "", "Void", "", NoBoard, <<>>)
    /\ UNCHANGED <<variant, engineBuild, games, chess, idCounter, timerCounter,
                   examined>>

\* clearTimer: ic.clearTimer drops the registration if it is still pending.
clearTimer(timerId) ==
    /\ variant = "index"
    /\ timers' = {t \in timers : t.id # timerId}
    /\ lastOp' = Call("clearTimer", "", "Void", "", NoBoard, <<>>)
    /\ UNCHANGED <<variant, engineBuild, games, chess, idCounter, timerCounter,
                   examined>>

\* --------------------------------------------------- src/unnamed/part_000
\* Game.init(): same reads of the shared engine, but the Black tag is set.
init_p(id) ==
    [id |-> id, board |-> ascii(chess), fen |-> fen(chess),
     history |-> OptNone,
     turn |-> [White |-> "undefined", Black |-> "null"],
     is_checkmate |-> FALSE]

\* promotions.Some ? promotions.Some : undefined
UnwrapSome(promotions) == IF promotions = OptNone THEN "undefined" ELSE promotions[1]

\* Variant of movePiece that draws the board before making the move.
movePiece_staleBoard(game, username, from, to, promotions, isWhiteMove) ==
    IF isWhiteMove /\ game.turn.White = "null"
    THEN Outcome("Err", "Not your turn", NoBoard, games, chess)
    ELSE IF ~isWhiteMove /\ game.turn.Black = "null"
    THEN Outcome("Err", "Not your turn", NoBoard, games, chess)
    ELSE LET m == chess_move(game.fen, from, to, UnwrapSome(promotions))
             g == [game EXCEPT
                     !.board = ascii(game.fen), !.fen = fen(m.pos),
                     !.turn = [White |-> IF isWhiteMove THEN "undefined" ELSE "null",
                               Black |-> IF isWhiteMove THEN "null" ELSE "undefined"]]
         IN  IF m.status = "throw"
             THEN Outcome("Err", "Error: Invalid move", NoBoard, games, m.pos)
             ELSE IF m.status = "move"
             THEN IF game.is_checkmate
                  THEN Outcome("OkCheckmate", "", g.board, games, m.pos)
                  ELSE Outcome("Ok", "", g.board, Insert(games, username, g), m.pos)
             ELSE Outcome("Err", "Invalid move", NoBoard, games, m.pos)

\* Game.movePiece
movePiece(game, username, from, to, promotions, isWhiteMove) ==
    IF isWhiteMove /\ game.turn.White = "null"
    THEN Outcome("Err", "Not your turn", NoBoard, games, chess)
    ELSE IF ~isWhiteMove /\ game.turn.Black = "null"
    THEN Outcome("Err", "Not your turn", NoBoard, games, chess)
    ELSE LET m == chess_move(game.fen, from, to, UnwrapSome(promotions))
             g == [game EXCEPT
                     !.board = ascii(m.pos), !.fen = fen(m.pos),
                     !.turn = [White |-> IF isWhiteMove THEN "undefined" ELSE "null",
                               Black |-> IF isWhiteMove THEN "null" ELSE "undefined"]]
         IN  IF m.status = "throw"
             THEN Outcome("Err", "Error: Invalid move", NoBoard, games, m.pos)
             ELSE IF m.status = "move"
             THEN IF game.is_checkmate
                  THEN Outcome("OkCheckmate", "", g.board, games, m.pos)
                  ELSE Outcome("Ok", "", g.board, Insert(games, username, g), m.pos)
             ELSE Outcome("Err", "Invalid move", NoBoard, games, m.pos)

\* Variant of createGame without the containsKey check.
createGame_p_noCheck(username) ==
    /\ variant = "part_000"
    /\ idCounter < MaxGames
    /\ LET game == init_p(idCounter + 1)
       IN  /\ timers' = timers \cup {[id |-> timerCounter + 1, key |-> username]}
           /\ timerCounter' = timerCounter + 1
           /\ idCounter' = idCounter + 1
           /\ games' = Insert(games, username, game)
           /\ lastOp' = Call("createGame", username, "Ok", "", game.board, <<game>>)
    /\ UNCHANGED <<variant, engineBuild, chess, examined>>

\* createGame: throws when the key already has a session.
createGame_p(username) ==
    /\ variant = "part_000"
    /\ IF containsKey(games, username)
       THEN /\ lastOp' = Call("createGame", username, "Throw",
                              "Player already has an active game", NoBoard, <<>>)
            /\ UNCHANGED <<games, timers, timerCounter, idCounter>>
       ELSE /\ idCounter < MaxGames
            /\ LET game == init_p(idCounter + 1)
               IN  /\ timers' = timers \cup {[id |-> timerCounter + 1, key |-> username]}
                   /\ timerCounter' = timerCounter + 1
                   /\ idCounter' = idCounter + 1
                   /\ games' = Insert(games, username, game)
                   /\ lastOp' = Call("createGame", username, "Ok", "", game.board, <<game>>)
    /\ UNCHANGED <<variant, engineBuild, chess, examined>>

\* Variant of setCheckMate that does not load the session's position
\* before asking the engine.
setCheckMate_p_noLoad(t) ==
    /\ variant = "part_000"
    /\ t \in timers
    /\ timers' = timers \ {t}
    /\ IF containsKey(games, t.key)
       THEN LET game == games[t.key]
            IN  /\ chess' = chess
                /\ examined' = examined \cup {game.id}
                /\ games' = IF isCheckmate(chess)
                            THEN Insert(games, t.key, [game EXCEPT !.is_checkmate = TRUE])
                            ELSE games
                /\ lastOp' = Call("setCheckMate", t.key, "Void",
                                  IF game.id \in examined THEN "again" ELSE "first",
                                  NoBoard, <<>>)
       ELSE /\ UNCHANGED <<games, chess, examined>>
            /\ lastOp' = Call("setCheckMate", t.key, "Void", "absent", NoBoard, <<>>)
    /\ UNCHANGED <<variant, engineBuild, idCounter, timerCounter>>

\* Variant of setCheckMate that asks the engine about the position it
\* already holds and writes that position back with the flag.
setCheckMate_p_engineState(t) ==
    /\ variant = "part_000"
    /\ t \in timers
    /\ timers' = timers \ {t}
    /\ IF containsKey(games, t.key)
       THEN LET game == games[t.key]
            IN  /\ chess' = chess
                /\ examined' = examined \cup {game.id}
                /\ games' = IF isCheckmate(chess)
                            THEN Insert(games, t.key,
                                        [game EXCEPT !.is_checkmate = TRUE,
                                                     !.fen = fen(chess),
                                                     !.board = ascii(chess)])
                            ELSE games
                /\ lastOp' = Call("setCheckMate", t.key, "Void",
                                  IF game.id \in examined THEN "again" ELSE "first",
                                  NoBoard, <<>>)
       ELSE /\ UNCHANGED <<games, chess, examined>>
            /\ lastOp' = Call("setCheckMate", t.key, "Void", "absent", NoBoard, <<>>)
    /\ UNCHANGED <<variant, engineBuild, idCounter, timerCounter>>

\* setCheckMate, run by the timer `t` when it fires.
setCheckMate_p(t) ==
    /\ variant = "part_000"
    /\ t \in timers
    /\ timers' = timers \ {t}
    /\ IF containsKey(games, t.key)
       THEN LET game == games[t.key]
            IN  /\ chess' = game.fen
                /\ examined' = examined \cup {game.id}
                /\ games' = IF isCheckmate(game.fen)
                            THEN Insert(games, t.key, [game EXCEPT !.is_checkmate = TRUE])
                            ELSE games
                /\ lastOp' = Call("setCheckMate", t.key, "Void",
                                  IF game.id \in examined THEN "again" ELSE "first",
                                  NoBoard, <<>>)
       ELSE /\ UNCHANGED <<games, chess, examined>>
            /\ lastOp' = Call("setCheckMate", t.key, "Void", "absent", NoBoard, <<>>)
    /\ UNCHANGED <<variant, engineBuild, idCounter, timerCounter>>

\* getBoard
getBoard(username) ==
    /\ variant = "part_000"
    /\ lastOp' = IF containsKey(games, username)
                 THEN Call("get_board", username, "Ok", "", games[username].board, <<>>)
                 ELSE Call("get_board", username, "Err", "Game not found", NoBoard, <<>>)
    /\ UNCHANGED <<variant, engineBuild, games, chess, timers, idCounter,
                   timerCounter, examined>>

\* makeMove
makeMove(username, from, to, promotions, isWhiteMove) ==
    IF containsKey(games, username)
    THEN movePiece(games[username], username, from, to, promotions, isWhiteMove)
    ELSE NotFound

\* whiteMove
whiteMove(username, from, to, promotions) ==
    /\ variant = "part_000"
    /\ Finish("white_move", username, makeMove(username, from, to, promotions, TRUE))

\* blackMove
blackMove(username, from, to, promotions) ==
    /\ variant = "part_000"
    /\ Finish("black_move", username, makeMove(username, from, to, promotions, FALSE))

\* ---------------------------------------------------------- specification
Init ==
    /\ variant \in Variants
    /\ engineBuild \in EngineBuilds
    /\ games = [k \in {} |-> NoOp]
    /\ chess = StartPos
    /\ timers = {}
    /\ idCounter = 0
    /\ timerCounter = 0
    /\ examined = {}
    /\ lastOp = NoOp

Next ==
    \/ \E k \in Keys : createGame(k)
    \/ \E t \in timers : setCheckMate(t)
    \/ \E k \in Keys : get_board(k)
    \/ \E k \in Keys, m \in MoveInputs : white_move(k, m[1], m[2], m[3])
    \/ \E k \in Keys, m \in MoveInputs : black_move(k, m[1], m[2], m[3])
    \/ \E id \in 1..(MaxGames + 1) : clearTimer(id)
    \/ \E k \in Keys : createGame_p(k)
    \/ \E t \in timers : setCheckMate_p(t)
    \/ \E k \in Keys : getBoard(k)
    \/ \E k \in Keys, m \in MoveInputs : whiteMove(k, m[1], m[2], m[3])
    \/ \E k \in Keys, m \in MoveInputs : blackMove(k, m[1], m[2], m[3])

Spec == Init /\ [][Next]_vars

\* The steps of a run in which clearTimer is never called.
NextNoClear ==
    \/ \E k \in Keys : createGame(k)
    \/ \E t \in timers : setCheckMate(t)
    \/ \E k \in Keys : get_board(k)
    \/ \E k \in Keys, m \in MoveInputs : white_move(k, m[1], m[2], m[3])
    \/ \E k \in Keys, m \in MoveInputs : black_move(k, m[1], m[2], m[3])
    \/ \E k \in Keys : createGame_p(k)
    \/ \E t \in timers : setCheckMate_p(t)
    \/ \E k \in Keys : getBoard(k)
    \/ \E k \in Keys, m \in MoveInputs : whiteMove(k, m[1], m[2], m[3])
    \/ \E k \in Keys, m \in MoveInputs : blackMove(k, m[1], m[2], m[3])

\* A registered timer that is not cancelled fires: the IC runs every
\* pending timer once its delay has passed.
TimerFires == \E t \in timers : setCheckMate(t) \/ setCheckMate_p(t)

FairSpec == Init /\ [][NextNoClear]_vars /\ WF_vars(TimerFires)

\* ------------------------------------------------------------ properties
has(k) == containsKey(games, k)

MoveOps == {"white_move", "black_move"}

IsMove(o) == o.op \in MoveOps

Accepted(o) == IsMove(o) /\ o.kind \in {"Ok", "OkCheckmate"}

\* The result a move call by `op` on `game` would give for the input m.
TryMove(game, k, op, m) ==
    IF variant = "index"
    THEN IF op = "white_move" THEN moveWhite(game, k, m[1], m[2], m[3])
                              ELSE moveBlack(game, k, m[1], m[2], m[3])
    ELSE movePiece(game, k, m[1], m[2], m[3], op = "white_move")

\* The turn guard turns `op` away on `game`, whatever the squares are.
GuardRejects(game, k, op) ==
    \A m \in MoveInputs : TryMove(game, k, op, m).msg = "Not your turn"

\* The turn guard lets `op` through to the engine on `game`.
GuardAdmits(game, k, op) ==
    \A m \in MoveInputs : TryMove(game, k, op, m).msg # "Not your turn"

OtherOp(op) == IF op = "white_move" THEN "black_move" ELSE "white_move"

MoverTag(op) == IF op = "white_move" THEN "White" ELSE "Black"

OtherTag(op) == IF op = "white_move" THEN "Black" ELSE "White"

AfterF3 == [StartPos EXCEPT !.f = 1, !.stm = "b"]

AfterF3E5 == [AfterF3 EXCEPT !.p = 1, !.stm = "w"]

FoolsMate == [f |-> 1, g |-> 1, p |-> 1, q |-> 1, stm |-> "w"]

\* C1: in index.ts turns alternate.  On a session that stands at the
\* starting position with White to move, every legal white_move is accepted
\* and stores Black as the turn owner; and in the state an accepted
\* white_move / black_move leaves behind, the stored turn is the other
\* side's, the mover's next call on that key is answered "Not your turn"
\* for every choice of squares, and the other side passes the turn guard.
C1_TurnsAlternate ==
    variant = "index" =>
        /\ \A k \in Keys, m \in MoveInputs :
              ( /\ has(k)
                /\ games[k].fen = StartPos
                /\ TurnTag(games[k].turn) = "White"
                /\ ~games[k].is_checkmate
                /\ LegalMove(StartPos, m[1], m[2]) )
              => LET r == moveWhite(games[k], k, m[1], m[2], m[3])
                 IN  /\ r.kind = "Ok"
                     /\ TurnTag(r.games[k].turn) = "Black"
        /\ Accepted(lastOp) =>
              /\ TurnTag(games[lastOp.key].turn) = OtherTag(lastOp.op)
              /\ GuardRejects(games[lastOp.key], lastOp.key, lastOp.op)
              /\ GuardAdmits(games[lastOp.key], lastOp.key, OtherOp(lastOp.op))

\* Witness of C1: White's f2-f3 and Black's e7-e5 were both accepted on
\* alice's session, and the turn is back with White.
C1_Witness ==
    /\ variant = "index"
    /\ lastOp.op = "black_move" /\ lastOp.kind = "Ok" /\ lastOp.key = "alice"
    /\ has("alice")
    /\ games["alice"].fen = AfterF3E5
    /\ TurnTag(games["alice"].turn) = "White"

\* C2: in part_000 turns alternate through movePiece: after any accepted
\* move the turn guard rejects the mover and admits the other side.
C2_TurnsAlternate_p ==
    (variant = "part_000" /\ Accepted(lastOp)) =>
        /\ GuardRejects(games[lastOp.key], lastOp.key, lastOp.op)
        /\ GuardAdmits(games[lastOp.key], lastOp.key, OtherOp(lastOp.op))

\* C3: createGame on a key without a session stores and returns a session
\* at the starting position, with the White tag set and is_checkmate false,
\* and the board then read is the rendering of the starting position,
\* whatever was executed before.
C3_CreateGivesStart ==
    [][(lastOp'.op = "createGame" /\ lastOp'.kind = "Ok" /\ ~has(lastOp'.key)) =>
         LET g == games'[lastOp'.key]
             r == lastOp'.ret[1]
         IN  /\ g.fen = StartPos /\ r.fen = StartPos
             /\ TurnTag(g.turn) = "White" /\ TurnTag(r.turn) = "White"
             /\ ~g.is_checkmate /\ ~r.is_checkmate
             /\ g.board = ascii(StartPos)
    ]_vars

Flagged(k) == has(k) /\ games[k].is_checkmate

\* C4 as claimed: in index.ts, once a key's stored is_checkmate is true it
\* is never false again, whatever is called.
C4_MonotonicPerKey ==
    [][variant = "index" => \A k \in Keys : Flagged(k) => Flagged(k)']_vars

\* C4 as amended: in index.ts is_checkmate is monotonic per stored session
\* record.  While the record stored under a key keeps its id the flag stays
\* true, and the flag of a key is only ever cleared by createGame on that
\* same key, which stores a new record under a new id.
C4_MonotonicPerSession ==
    [][variant = "index" => \A k \in Keys : Flagged(k) =>
          /\ has(k)'
          /\ games'[k].id = games[k].id => games'[k].is_checkmate
          /\ ~games'[k].is_checkmate =>
                lastOp'.op = "createGame" /\ lastOp'.key = k
    ]_vars

\* Witness of C4: while one key holds a flagged session, createGame has
\* just stored a session under the other key, and the flag is still set.
C4_Witness ==
    /\ variant = "index"
    /\ lastOp.op = "createGame" /\ lastOp.kind = "Ok"
    /\ \E k \in Keys \ {lastOp.key} : Flagged(k)

\* C5: in part_000 createGame on a key that has a session throws, leaves
\* the session store as it is and registers no timer.
C5_DuplicateRejected ==
    [][(variant = "part_000" /\ lastOp'.op = "createGame" /\ has(lastOp'.key)) =>
          /\ lastOp'.kind = "Throw"
          /\ games' = games
          /\ timers' = timers
          /\ timerCounter' = timerCounter
          /\ idCounter' = idCounter
    ]_vars

\* Witness of C5: a createGame call on a key with a session has thrown.
C5_Witness ==
    /\ variant = "part_000"
    /\ lastOp.op = "createGame" /\ lastOp.kind = "Throw"
    /\ has(lastOp.key)

\* C6: in index.ts the verifier is fire-once-per-session: at any time at
\* most one firing is pending for a key, and no firing reads a stored
\* session record that an earlier firing has already read.
C6_FireOncePerSession ==
    variant = "index" =>
        /\ \A k \in Keys : Cardinality({t \in timers : t.key = k}) <= 1
        /\ ~(lastOp.op = "setCheckMate" /\ lastOp.msg = "again")

\* C7: a move call that returns an Err leaves the session store exactly as
\* it was, so every key reads back the board, turn, position and flag it
\* had before the call.
C7_ErrLeavesStore ==
    [][(IsMove(lastOp') /\ lastOp'.kind = "Err") => games' = games]_vars

\* Witness of C7: the engine has refused a move of the side that holds the
\* turn on an existing session.
C7_Witness ==
    /\ IsMove(lastOp) /\ lastOp.kind = "Err"
    /\ lastOp.msg \in {"Invalid move", "Error: Invalid move"}
    /\ has(lastOp.key)

\* C8: once a stored session has is_checkmate = true, no move call changes
\* the stored record of that key: position, board and turn stay as they are.
C8_FlaggedFrozen ==
    [][IsMove(lastOp') =>
          \A k \in Keys : Flagged(k) => (has(k)' /\ games'[k] = games[k])
    ]_vars

\* Witness of C8: a move call by the side the turn guard admits has just
\* been made on a flagged session.
C8_Witness ==
    /\ IsMove(lastOp) /\ Flagged(lastOp.key)
    /\ lastOp.msg # "Not your turn"

\* C9: on a session whose stored position is checkmate and whose
\* is_checkmate is true, a move call by the side the turn guard admits
\* returns Ok with the board and the checkmate notice, and leaves the
\* stored session as it is.
C9_TerminalAnnotated ==
    [][\A k \in Keys, op \in MoveOps :
          ( /\ lastOp'.op = op /\ lastOp'.key = k
            /\ Flagged(k) /\ isCheckmate(games[k].fen)
            /\ GuardAdmits(games[k], k, op) )
          => (lastOp'.kind = "OkCheckmate" /\ games' = games)
    ]_vars

\* C10: with timers firing fairly and clearTimer never called, a session
\* whose stored position is checkmate eventually has is_checkmate = true.
C10_EventuallyDetected ==
    \A k \in Keys :
        (has(k) /\ isCheckmate(games[k].fen)) ~> Flagged(k)

\* C11: the verifier is the only step that turns a stored is_checkmate
\* from false to true (a key without a session counts as not flagged), and
\* a firing for key k sets the flag exactly when k has a session whose
\* stored position the engine reports as checkmate; otherwise it leaves
\* the store as it is.
C11_OnlyVerifierFlags ==
    [][/\ \A k \in Keys : (~Flagged(k) /\ Flagged(k)') =>
             (lastOp'.op = "setCheckMate" /\ lastOp'.key = k)
       /\ lastOp'.op = "setCheckMate" =>
             IF has(lastOp'.key) /\ isCheckmate(games[lastOp'.key].fen)
             THEN games' = [games EXCEPT ![lastOp'.key].is_checkmate = TRUE]
             ELSE games' = games
    ]_vars

\* Witness of C11: in part_000 a firing has just flagged a session that
\* stands at the mate position.
C11_Witness ==
    /\ variant = "part_000"
    /\ lastOp.op = "setCheckMate" /\ lastOp.msg = "first"
    /\ Flagged(lastOp.key)
    /\ games[lastOp.key].fen = FoolsMate

OneTag(turn) ==
    \/ turn.White = "null" /\ turn.Black = "undefined"
    \/ turn.White = "undefined" /\ turn.Black = "null"

\* C12: every stored session, and every session createGame returns, has
\* exactly one of the tags White / Black set in its turn field.
C12_ExactlyOneTag ==
    /\ \A k \in DOMAIN games : OneTag(games[k].turn)
    /\ \A i \in 1..Len(lastOp.ret) : OneTag(lastOp.ret[i].turn)

\* Witness of C12: after accepted moves of both sides and a verifier
\* firing, the session in index.ts carries the White tag.
C12_Witness ==
    /\ variant = "index"
    /\ lastOp.op = "setCheckMate" /\ has(lastOp.key)
    /\ games[lastOp.key].fen = AfterF3E5
    /\ TurnTag(games[lastOp.key].turn) = "White"

ReadOps == {"get_board", "white_move", "black_move"}

\* C13: on a key without a session get_board, white_move and black_move
\* return Err "Game not found", store nothing and register no timer; and
\* get_board on any key changes neither the store nor the position loaded
\* in the engine, and returns the stored board.
C13_NotFoundAndPureRead ==
    [][/\ (lastOp'.op \in ReadOps /\ ~has(lastOp'.key)) =>
             /\ lastOp'.kind = "Err" /\ lastOp'.msg = "Game not found"
             /\ games' = games /\ timers' = timers /\ chess' = chess
       /\ lastOp'.op = "get_board" =>
             /\ games' = games /\ timers' = timers /\ chess' = chess
             /\ has(lastOp'.key) =>
                   (lastOp'.kind = "Ok" /\ lastOp'.board = games[lastOp'.key].board)
    ]_vars

\* Witness of C13: get_board has read bob's board while the engine holds
\* the position of alice's game.
C13_Witness ==
    /\ lastOp.op = "get_board" /\ lastOp.kind = "Ok" /\ lastOp.key = "bob"
    /\ has("alice")
    /\ chess = games["alice"].fen
    /\ chess # games["bob"].fen

\* C14: the turn guard comes before any engine call.  A move call that is
\* answered "Not your turn" leaves the position loaded in the engine and
\* the store as they are, and a call the guard turns away is answered
\* "Not your turn" for every from, to and promotion, malformed or illegal
\* ones included.
C14_GuardBeforeEngine ==
    \A k \in DOMAIN games, op \in MoveOps :
        LET r == [m \in MoveInputs |-> TryMove(games[k], k, op, m)]
        IN  (\E m \in MoveInputs : r[m].msg = "Not your turn") =>
               \A m \in MoveInputs :
                   /\ r[m].msg = "Not your turn"
                   /\ r[m].kind = "Err"
                   /\ r[m].chess = chess
                   /\ r[m].games = games

\* Witness of C14: a move call has been answered "Not your turn" while the
\* engine holds a position other than the one of the session it was made on.
C14_Witness ==
    /\ IsMove(lastOp) /\ lastOp.msg = "Not your turn"
    /\ has(lastOp.key)
    /\ chess # games[lastOp.key].fen

\* C15: a verifier firing adds and removes no key, leaves every session of
\* another key as it is, and changes nothing of its own key's session but
\* is_checkmate: id, position, board, turn and history are the stored ones.
C15_VerifierTouchesFlagOnly ==
    [][lastOp'.op = "setCheckMate" =>
          /\ DOMAIN games' = DOMAIN games
          /\ \A k \in DOMAIN games :
                /\ k # lastOp'.key => games'[k] = games[k]
                /\ games'[k] =
                      [games[k] EXCEPT !.is_checkmate = games'[k].is_checkmate]
    ]_vars

\* Witness of C15: the verifier has fired on a session that moves had
\* already advanced past the position it was created with, and left it
\* unflagged.
C15_Witness ==
    /\ lastOp.op = "setCheckMate" /\ lastOp.msg = "first"
    /\ has(lastOp.key)
    /\ games[lastOp.key].fen = AfterF3
    /\ ~games[lastOp.key].is_checkmate

\* C16: the board of every stored session is the rendering of its stored
\* position.
C16_BoardRendersFen ==
    \A k \in DOMAIN games : games[k].board = ascii(games[k].fen)

\* Witness of C16: in part_000 an accepted move has stored a position
\* other than the starting one, and returned its board.
C16_Witness ==
    /\ variant = "part_000"
    /\ Accepted(lastOp)
    /\ games[lastOp.key].fen # StartPos
    /\ lastOp.board = games[lastOp.key].board

\* C17: in index.ts clearTimer returns normally for every timer id, be the
\* timer pending, fired, cancelled or never registered; it changes neither
\* the store nor the engine; after it no firing with that id is pending, and
\* every other pending firing still is, so a second call changes nothing;
\* and a timer id that was handed out is never registered again, so a
\* cancelled firing cannot come back.
C17_ClearTimer ==
    [][/\ lastOp'.op = "clearTimer" =>
             /\ lastOp'.kind = "Void"
             /\ games' = games /\ chess' = chess
             /\ timerCounter' = timerCounter /\ idCounter' = idCounter
             /\ \A id \in 1..(MaxGames + 1) : clearTimer(id) =>
                   /\ \A t \in timers' : t.id # id
                   /\ \A t \in timers : t.id # id => t \in timers'
                   /\ {t \in timers' : t.id # id} = timers'
       /\ \A t \in timers : t.id <= timerCounter
       /\ \A t \in timers' \ timers : t.id > timerCounter
    ]_vars

\* Witness of C17: the only timer registered so far has been cancelled
\* while pending: it never fired, and its session is still stored.
C17_Witness ==
    /\ lastOp.op = "clearTimer"
    /\ timerCounter = 1 /\ timers = {}
    /\ examined = {}
    /\ \E k \in Keys : has(k)

\* C18: every stored session with is_checkmate = true stands at a position
\* the engine reports as checkmate.
C18_FlaggedIsMate ==
    \A k \in DOMAIN games : games[k].is_checkmate => isCheckmate(games[k].fen)

\* Witness of C18: both keys hold a flagged session.
C18_Witness == \A k \in Keys : Flagged(k)

SideOp(stm) == IF stm = "w" THEN "white_move" ELSE "black_move"

\* C19: for every stored session the side the turn guard admits is the
\* side to move in the stored position, and the other side is turned away.
C19_TurnAgreesWithFen ==
    \A k \in DOMAIN games :
        /\ GuardAdmits(games[k], k, SideOp(games[k].fen.stm))
        /\ GuardRejects(games[k], k, OtherOp(SideOp(games[k].fen.stm)))

\* C20: sessions are isolated: a createGame, move or firing for key k
\* neither changes, adds nor removes the session of any other key.
C20_Isolation ==
    [][\A k \in Keys : lastOp'.key # k =>
          /\ has(k)' = has(k)
          /\ has(k) => games'[k] = games[k]
    ]_vars

\* Witness of C20: both keys hold a session; a move on alice's has just
\* been accepted and bob's still stands where it was created.
C20_Witness ==
    /\ has("alice") /\ has("bob")
    /\ Accepted(lastOp) /\ lastOp.key = "alice"
    /\ games["alice"].fen = AfterF3E5
    /\ games["bob"].fen = StartPos

====
